---- MODULE Spec2Model ----
(***************************************************************************)
(* Model of infra/bisector.py: the recursive bisection over a commit list, *)
(* the probe test_error_exists (checkout, build, reproduce) and main's     *)
(* classification of the returned index.                                   *)
(*                                                                         *)
(* Commits are identified with their index in commit_list.  The external   *)
(* collaborators (build and reproduction) are a fixed function `oracle`    *)
(* from index to what building and running that revision yields.           *)
(***************************************************************************)
EXTENDS Integers, Sequences, FiniteSets

VARIABLES n, oracle, commit_new_idx, commit_old_idx, last_error, cur_idx,
          depth, pc, result, probes, output, error

vars == <<n, oracle, commit_new_idx, commit_old_idx, last_error, cur_idx,
          depth, pc, result, probes, output, error>>

\* Longest commit list explored.
MaxN == 8

\* Number of nested bisection calls the interpreter's stack allows; one more
\* raises RecursionError.
RecursionLimit == 12

\* What checking out, building and reproducing one revision can yield:
\* the build fails, or the reproduction exits with code 0, 1 or 2.
Outcomes == {"build_error", "exit0", "exit1", "exit2"}

\* reproduce(args): the exit code of the reproduction run.
reproduce_error(o) ==
  CASE o = "exit0" -> 0
    [] o = "exit1" -> 1
    [] o = "exit2" -> 2
    [] OTHER -> 0

\* build_fuzzers(args, True) fails with BuildError.
build_fuzzers_raises(o) == o = "build_error"

\* Mutant of test_error_exists: only exit code 1 counts as the failure.
test_error_exists_one_code(err_code) == err_code = 1

\* test_error_exists: err_code == 0 -> False, otherwise True.
test_error_exists(err_code) == err_code # 0

\* Mutant of CurIdx: probe the newest end of the range (linear scan).
CurIdxLinear(new, old) == new

\* cur_idx = (commit_new_idx + commit_old_idx) // 2
CurIdx(new, old) == (new + old) \div 2

\* Mutant of AtIndexZero: the cur_idx == 0 early return is missing.
AtIndexZeroMissing(cur) == FALSE

\* if cur_idx == 0: return -1
AtIndexZero(cur) == cur = 0

\* Mutant of NextNewIdx: the probed index stays in the range.
NextNewIdxKeep(cur) == cur

\* The commit_new_idx of the recursive call after an error: cur_idx + 1.
NextNewIdx(cur) == cur + 1

\* commit_list[i]: a negative index counts from the end of the list.
ListIndex(i) == IF i < 0 THEN i + n ELSE i

Init ==
  /\ n \in 1..MaxN
  /\ oracle \in [0..(n - 1) -> Outcomes]
  /\ commit_new_idx = 0
  /\ commit_old_idx = n - 1
  /\ last_error = n
  /\ cur_idx = 0
  /\ depth = 1
  /\ pc = "bisection"
  /\ result = <<>>
  /\ probes = <<>>
  /\ output = <<>>
  /\ error = <<>>

\* The index the pending call of bisection probes, and what it observes.
Cur == CurIdx(commit_new_idx, commit_old_idx)
CurOutcome == oracle[ListIndex(Cur)]
CurErrCode == reproduce_error(CurOutcome)
CurErrorExists == test_error_exists(CurErrCode)
CurProbe == [idx |-> Cur, err_code |-> CurErrCode, error_exists |-> CurErrorExists]

\* test_error_exists: the build raises; nothing catches it up to main.
BisectionBuildError ==
  /\ pc = "bisection"
  /\ build_fuzzers_raises(CurOutcome)
  /\ cur_idx' = Cur
  /\ pc' = "aborted"
  /\ error' = <<"BuildError">>
  /\ UNCHANGED <<n, oracle, commit_new_idx, commit_old_idx, last_error,
                 depth, result, probes, output>>

\* commit_new_idx == commit_old_idx: return cur_idx or last_error.
BisectionBase ==
  /\ pc = "bisection"
  /\ ~build_fuzzers_raises(CurOutcome)
  /\ commit_new_idx = commit_old_idx
  /\ cur_idx' = Cur
  /\ probes' = Append(probes, CurProbe)
  /\ result' = IF CurErrorExists THEN <<Cur>> ELSE <<last_error>>
  /\ pc' = "main"
  /\ UNCHANGED <<n, oracle, commit_new_idx, commit_old_idx, last_error,
                 depth, output, error>>

\* error_exists: return bisection(cur_idx + 1, commit_old_idx, ..., cur_idx)
BisectionErrorExists ==
  /\ pc = "bisection"
  /\ ~build_fuzzers_raises(CurOutcome)
  /\ commit_new_idx # commit_old_idx
  /\ CurErrorExists
  /\ depth < RecursionLimit
  /\ depth' = depth + 1
  /\ cur_idx' = Cur
  /\ probes' = Append(probes, CurProbe)
  /\ commit_new_idx' = NextNewIdx(Cur)
  /\ last_error' = Cur
  /\ UNCHANGED <<n, oracle, commit_old_idx, pc, result, output, error>>

\* not error_exists and cur_idx == 0: return -1
BisectionNotFound ==
  /\ pc = "bisection"
  /\ ~build_fuzzers_raises(CurOutcome)
  /\ commit_new_idx # commit_old_idx
  /\ ~CurErrorExists
  /\ AtIndexZero(Cur)
  /\ cur_idx' = Cur
  /\ probes' = Append(probes, CurProbe)
  /\ result' = <<-1>>
  /\ pc' = "main"
  /\ UNCHANGED <<n, oracle, commit_new_idx, commit_old_idx, last_error,
                 depth, output, error>>

\* not error_exists: return bisection(commit_new_idx, cur_idx - 1, ..., last_error)
BisectionNoError ==
  /\ pc = "bisection"
  /\ ~build_fuzzers_raises(CurOutcome)
  /\ commit_new_idx # commit_old_idx
  /\ ~CurErrorExists
  /\ ~AtIndexZero(Cur)
  /\ depth < RecursionLimit
  /\ depth' = depth + 1
  /\ cur_idx' = Cur
  /\ probes' = Append(probes, CurProbe)
  /\ commit_old_idx' = Cur - 1
  /\ UNCHANGED <<n, oracle, commit_new_idx, last_error, pc, result, output,
                 error>>

\* A recursive call beyond the stack's limit: RecursionError, uncaught.
BisectionRecursionError ==
  /\ pc = "bisection"
  /\ ~build_fuzzers_raises(CurOutcome)
  /\ commit_new_idx # commit_old_idx
  /\ CurErrorExists \/ ~AtIndexZero(Cur)
  /\ depth = RecursionLimit
  /\ cur_idx' = Cur
  /\ probes' = Append(probes, CurProbe)
  /\ pc' = "aborted"
  /\ error' = <<"RecursionError">>
  /\ UNCHANGED <<n, oracle, commit_new_idx, commit_old_idx, last_error,
                 depth, result, output>>

\* main: the message printed for result_commit_idx.
MainOutput(r) ==
  IF r = -1 THEN <<"No error was found in commit range">>
  ELSE IF r = n THEN <<"Error was found through full commit range">>
  ELSE <<"Error was introduced at commit", r>>

Main ==
  /\ pc = "main"
  /\ output' = MainOutput(result[1])
  /\ pc' = "done"
  /\ UNCHANGED <<n, oracle, commit_new_idx, commit_old_idx, last_error,
                 cur_idx, depth, result, probes, error>>

Next ==
  \/ BisectionBuildError
  \/ BisectionBase
  \/ BisectionErrorExists
  \/ BisectionNotFound
  \/ BisectionNoError
  \/ BisectionRecursionError
  \/ Main

Spec == Init /\ [][Next]_vars

(***************************************************************************)
(* Vocabulary of the properties.                                           *)
(***************************************************************************)
\* Every revision of the list builds.
NoBuildError == \A i \in 0..(n - 1) : ~build_fuzzers_raises(oracle[i])

\* probe(i): what test_error_exists answers at index i.
Probe(i) == test_error_exists(reproduce_error(oracle[i]))

\* A monotonic probe with its flip at b: false below b, true from b on.
\* b = 0 is "true everywhere", b = n is "false everywhere".
Step(b) == NoBuildError /\ \A i \in 0..(n - 1) : Probe(i) <=> (i >= b)

Monotonic == \E b \in 0..n : Step(b)

Returned == pc \in {"main", "done"}

\* The least k with 2^k >= m.
CeilLog2(m) == CHOOSE k \in 0..m : 2 ^ k >= m /\ \A j \in 0..(k - 1) : 2 ^ j < m

NoError == "No error was found in commit range"
FullRange == "Error was found through full commit range"
Introduced == "Error was introduced at commit"

\* C1: for n >= 2 and a monotonic probe with its flip at b, 0 < b < n, the
\* search started as bisection(0, n-1, ..., n) returns exactly b.
C1_ReturnsBoundary ==
  \A b \in 1..(n - 1) : (Step(b) /\ Returned) => result = <<b>>

\* C2: when the probe is true at every index, the run ends with the message
\* 'Error was found through full commit range' and names no revision.
C2_AllTrueFullRange ==
  (Step(0) /\ pc = "done") => output[1] = FullRange

\* C3: when the probe is false at every index it is called on, the run ends
\* with 'No error was found in commit range'.
C3_AllFalseNoError ==
  (pc = "done" /\ \A k \in 1..Len(probes) : ~probes[k].error_exists)
    => output[1] = NoError

\* C4: for every deterministic probe function (every revision builds), the
\* search returns a result: it never recurses until the stack overflows and
\* never crashes.
C4_AlwaysReturns == NoBuildError => pc \in {"bisection", "main", "done"}

C6_SingleRevision ==
  (n = 1 /\ pc = "done") =>
    /\ Len(probes) = 1
    /\ output[1] # Introduced
    /\ probes[1].error_exists => output[1] = FullRange
    /\ ~probes[1].error_exists => output[1] = NoError

C8_BuildErrorReported ==
  (pc = "aborted" /\ error[1] = "BuildError") =>
    /\ result = <<>>
    /\ output = <<>>
    /\ Len(error) = 2
    /\ error[2] = cur_idx

C10_IndexInRange ==
  /\ pc = "bisection" => Cur \in 0..(n - 1)
  /\ cur_idx \in 0..(n - 1)

C10_Witness ==
  pc = "bisection" /\ commit_new_idx > commit_old_idx /\ Len(probes) >= 3

====
